---- MODULE Spec2Model ----
(***************************************************************************)
(* Semantic metrics modeling assistant: the in-memory metric registry and  *)
(* lineage index of server.py, and the pure scoring, trend, similarity and *)
(* sparkline functions of trust_scoring.py / server.py.                    *)
(*                                                                         *)
(* Strings are sequences of one-character strings, so that lower(),        *)
(* replace(), split() and len() are computed, not assumed.  Timestamps are *)
(* whole-day numbers; (now - t).days is the difference of two of them.     *)
(* Fractional scores are carried as integers in twelfths of a point        *)
(* (15/20, 35/25 and days/30*5 all have denominators dividing 12).         *)
(***************************************************************************)
EXTENDS Integers, Sequences, FiniteSets, TLC

VARIABLES
    METRICS_STORE,   \* server.py METRICS_STORE: metric id -> metric record
    LINEAGE_GRAPH,   \* server.py LINEAGE_GRAPH: reference -> list of metric ids
    now,             \* the clock read by datetime.now(), in days
    db,              \* database.py MetricsDatabase: the tables of the connection
    call,            \* the arguments of the pure function under check
    result           \* what the last tool call or function call returned

vars == <<METRICS_STORE, LINEAGE_GRAPH, now, db, call, result>>

----------------------------------------------------------------------------
(* Bounds of the model. *)

\* most qualified references written in one calculation
MaxRefs == 2

\* frames of _build_dependency_tree the interpreter allows on its stack
RecursionLimit == 5

\* largest test_count of a metric handed to the enhanced scorer
MaxTestCount == 5

\* most change records in a history handed to calculate_trend
MaxHistory == 10

\* most scores in a sequence handed to generate_sparkline
MaxScores == 4

----------------------------------------------------------------------------
(* Strings *)

Str(n, c) == [i \in 1..n |-> c]

LowerChar(c) ==
    CASE c = "A" -> "a" [] c = "B" -> "b" [] c = "C" -> "c" [] c = "D" -> "d"
      [] c = "E" -> "e" [] c = "F" -> "f" [] c = "S" -> "s" [] c = "L" -> "l"
      [] c = "T" -> "t" [] OTHER -> c

StrLower(s) == [i \in 1..Len(s) |-> LowerChar(s[i])]

StrReplace(s, old, new) == [i \in 1..Len(s) |-> IF s[i] = old THEN new ELSE s[i]]

WordChars == {"a", "b", "c", "d", "e", "f", "s", "l", "t", "_"}

\* name.lower().replace(" ", "_")
MetricIdNoReplace(name) == StrLower(name)

MetricIdNoLower(name) == StrReplace(name, " ", "_")

MetricId(name) == StrReplace(StrLower(name), " ", "_")

\* a token of the form [a-z_]+\.[a-z_]+
IsQualifiedRef(tok) ==
    \E i \in 2..(Len(tok) - 1) :
        /\ tok[i] = "."
        /\ \A j \in (1..Len(tok)) \ {i} : tok[j] \in WordChars

\* re.findall over calculation.lower(), then list(set(...)).  A calculation is
\* its sequence of whitespace-separated tokens; every token of the model is
\* either one qualified reference or holds none.
_extract_dependencies(calculation) ==
    { StrLower(calculation[i]) : i \in { j \in 1..Len(calculation) :
                                          IsQualifiedRef(StrLower(calculation[j])) } }

\* '.' in name
_is_table_reference(name) == \E i \in 1..Len(name) : name[i] = "."

RECURSIVE SplitAt(_, _, _)
\* s.split(sep): the pieces of s between occurrences of the character sep
SplitAt(s, sep, cur) ==
    IF s = <<>> THEN <<cur>>
    ELSE IF Head(s) = sep THEN <<cur>> \o SplitAt(Tail(s), sep, <<>>)
    ELSE SplitAt(Tail(s), sep, Append(cur, Head(s)))

RECURSIVE LStrip(_)
LStrip(s) == IF s # <<>> /\ Head(s) = " " THEN LStrip(Tail(s)) ELSE s

RECURSIVE RStrip(_)
RStrip(s) ==
    IF s # <<>> /\ s[Len(s)] = " " THEN RStrip(SubSeq(s, 1, Len(s) - 1)) ELSE s

Strip(s) == RStrip(LStrip(s))

\* [t.strip() for t in tags.split(",")] if tags else []
ParseTags(tags) ==
    IF tags = <<>> THEN <<>>
    ELSE LET parts == SplitAt(tags, ",", <<>>)
         IN  [i \in 1..Len(parts) |-> Strip(parts[i])]

----------------------------------------------------------------------------
(* The basic scorer of server.py *)

_check_freshness(metric, t) ==
    LET age_days == t - metric.updated_at
    IN  IF age_days = 0 THEN 20
        ELSE IF age_days <= 7 THEN 18
        ELSE IF age_days <= 30 THEN 15
        ELSE IF age_days <= 90 THEN 10
        ELSE 5

_check_test_coverage(metric) ==
    LET tests == metric.test_count
    IN  IF tests >= 5 THEN 25
        ELSE IF tests >= 3 THEN 20
        ELSE IF tests >= 1 THEN 15
        ELSE 0

_check_usage(metric) ==
    LET usage == metric.usage_count
    IN  IF usage >= 20 THEN 20
        ELSE IF usage >= 10 THEN 15
        ELSE IF usage >= 5 THEN 10
        ELSE IF usage >= 1 THEN 5
        ELSE 0

_check_documentation(metric) ==
    (IF metric.description # <<>> THEN 10 ELSE 0)
    + (IF metric.data_source # <<>> THEN 5 ELSE 0)
    + (IF metric.tags # <<>> THEN 5 ELSE 0)

Unassigned == <<"U", "n", "a", "s", "s", "i", "g", "n", "e", "d">>

_check_ownership(metric) ==
    IF metric.owner # <<>> /\ metric.owner # Unassigned THEN 15 ELSE 0

_calculate_trust_score(metric, t) ==
    _check_freshness(metric, t) + _check_test_coverage(metric)
    + _check_usage(metric) + _check_documentation(metric)
    + _check_ownership(metric)

----------------------------------------------------------------------------
(* The enhanced scorer of trust_scoring.py.  Raw factor points are integers; *)
(* weighted scores, multipliers and the final score are in twelfths.         *)

Twelfths == 12

Min(a, b) == IF a <= b THEN a ELSE b

Max(a, b) == IF a >= b THEN a ELSE b

\* round(x, 1) of x = x12/12, in tenths: nearest tenth, ties to the even tenth
Round1(x12) ==
    LET q == (x12 * 10) \div Twelfths
        r == (x12 * 10) % Twelfths
    IN  IF r * 2 > Twelfths \/ (r * 2 = Twelfths /\ q % 2 = 1) THEN q + 1 ELSE q

check_freshness(metric, t) ==
    LET days_old == t - metric.updated_at
    IN  IF days_old <= 7 THEN 20
        ELSE IF days_old <= 30 THEN 15
        ELSE IF days_old <= 90 THEN 10
        ELSE IF days_old <= 180 THEN 5
        ELSE 0

\* the top tier opened at more than five tests instead of at five
check_test_coverage_above_five(metric) ==
    LET test_count == metric.test_count
    IN  IF test_count > 5 THEN 25
        ELSE IF test_count >= 3 THEN 20
        ELSE IF test_count >= 1 THEN 15
        ELSE 0

\* one or two tests given 10 points instead of 15
check_test_coverage_ten_for_one(metric) ==
    LET test_count == metric.test_count
    IN  IF test_count >= 5 THEN 25
        ELSE IF test_count >= 3 THEN 20
        ELSE IF test_count >= 1 THEN 10
        ELSE 0

check_test_coverage(metric) ==
    LET test_count == metric.test_count
    IN  IF test_count >= 5 THEN 25
        ELSE IF test_count >= 3 THEN 20
        ELSE IF test_count >= 1 THEN 15
        ELSE 0

check_usage(metric) ==
    LET usage == metric.usage_count
    IN  IF usage >= 50 THEN 20
        ELSE IF usage >= 20 THEN 15
        ELSE IF usage >= 10 THEN 10
        ELSE IF usage >= 1 THEN 5
        ELSE 0

check_documentation(metric) ==
    (IF Len(metric.description) > 20 THEN 5 ELSE 0)
    + (IF metric.data_source # <<>> THEN 5 ELSE 0)
    + (IF Len(metric.tags) > 0 THEN 5 ELSE 0)
    + (IF metric.dependencies # {} THEN 5 ELSE 0)

check_ownership(metric) ==
    IF metric.owner # <<>> /\ metric.owner # Unassigned THEN 15 ELSE 0

\* the two comparisons of calculate_trend made inclusive
calculate_trend_inclusive(history, t) ==
    IF Len(history) < 2 THEN "stable"
    ELSE LET recent_changes ==
                 Cardinality({ i \in 1..Len(history) :
                                 t - history[i].changed_at <= 30 })
             older_changes ==
                 Cardinality({ i \in 1..Len(history) :
                                 /\ 30 < t - history[i].changed_at
                                 /\ t - history[i].changed_at <= 60 })
         IN  IF recent_changes >= older_changes + 2 THEN "improving"
             ELSE IF recent_changes <= older_changes - 2 THEN "degrading"
             ELSE "stable"

calculate_trend(history, t) ==
    IF Len(history) < 2 THEN "stable"
    ELSE LET recent_changes ==
                 Cardinality({ i \in 1..Len(history) :
                                 t - history[i].changed_at <= 30 })
             older_changes ==
                 Cardinality({ i \in 1..Len(history) :
                                 /\ 30 < t - history[i].changed_at
                                 /\ t - history[i].changed_at <= 60 })
         IN  IF recent_changes > older_changes + 2 THEN "improving"
             ELSE IF recent_changes < older_changes - 2 THEN "degrading"
             ELSE "stable"

Rec(kind) == [kind |-> kind, missing |-> <<>>]

\* the threshold checks of get_recommendations, in the order they append
RecommendationEntries(metric, test_score, usage_score, doc_score, ownership_score, days_since_update) ==
    LET tests == IF test_score < 15 * Twelfths
                 THEN IF metric.test_count = 0 THEN <<Rec("tests_critical")>>
                      ELSE <<Rec("tests_more")>>
                 ELSE <<>>
        usage == IF usage_score < 10 * Twelfths
                 THEN IF metric.usage_count = 0 THEN <<Rec("usage_new")>>
                      ELSE <<Rec("usage_low")>>
                 ELSE <<>>
        fresh == IF days_since_update > 90 THEN <<Rec("freshness_stale")>>
                 ELSE IF days_since_update > 30 THEN <<Rec("freshness_review")>>
                 ELSE <<>>
        missing == (IF metric.data_source = <<>> THEN <<"data source">> ELSE <<>>)
                   \o (IF Len(metric.tags) = 0 THEN <<"tags">> ELSE <<>>)
                   \o (IF Len(metric.description) < 20
                       THEN <<"detailed description">> ELSE <<>>)
        docs == IF doc_score < 10 * Twelfths /\ missing # <<>>
                THEN <<[kind |-> "documentation", missing |-> missing]>>
                ELSE <<>>
        owner == IF ownership_score < 10 * Twelfths THEN <<Rec("ownership")>>
                 ELSE <<>>
    IN  tests \o usage \o fresh \o docs \o owner

\* the overall assessment appended after the entries instead of inserted at 0
get_recommendations_banner_last(final_score, metric, freshness_score, test_score, usage_score, doc_score, ownership_score, days_since_update) ==
    LET body == RecommendationEntries(metric, test_score, usage_score, doc_score,
                                      ownership_score, days_since_update)
    IN  IF final_score >= 80 * Twelfths THEN body \o <<Rec("banner_excellent")>>
        ELSE IF final_score < 50 * Twelfths THEN body \o <<Rec("banner_action")>>
        ELSE body

\* the banners given from a score of 90 and below a score of 50
get_recommendations_banner_at_ninety(final_score, metric, freshness_score, test_score, usage_score, doc_score, ownership_score, days_since_update) ==
    LET body == RecommendationEntries(metric, test_score, usage_score, doc_score,
                                      ownership_score, days_since_update)
    IN  IF final_score >= 90 * Twelfths THEN <<Rec("banner_excellent")>> \o body
        ELSE IF final_score < 50 * Twelfths THEN <<Rec("banner_action")>> \o body
        ELSE body

get_recommendations(final_score, metric, freshness_score, test_score, usage_score, doc_score, ownership_score, days_since_update) ==
    LET body == RecommendationEntries(metric, test_score, usage_score, doc_score,
                                      ownership_score, days_since_update)
    IN  IF final_score >= 80 * Twelfths THEN <<Rec("banner_excellent")>> \o body
        ELSE IF final_score < 50 * Twelfths THEN <<Rec("banner_action")>> \o body
        ELSE body

\* the clamp with its upper limit left out
ClampLowOnly(x) == Max(0, x)

\* max(0, min(100, final_score))
Clamp(x) == Max(0, Min(100 * Twelfths, x))

\* every gap of the history examined, not only those of its first ten records
ConsistencyBonusWholeHistory(history) ==
    IF Len(history) >= 5
       /\ \A i \in 1..(Len(history) - 1) :
              history[i].changed_at - history[i + 1].changed_at <= 30
    THEN 5 * Twelfths ELSE 0

\* the consistency bonus of lines 55-68, in twelfths
ConsistencyBonus(history) ==
    LET update_dates == SubSeq(history, 1, Min(10, Len(history)))
    IN  IF Len(history) >= 5
           /\ \A i \in 1..(Len(update_dates) - 1) :
                  update_dates[i].changed_at - update_dates[i + 1].changed_at <= 30
        THEN 5 * Twelfths ELSE 0

\* the decay applied from a creation age of 90 days on
TimeDecayFromNinety(days_since_creation, days_since_update) ==
    IF days_since_creation >= 90 /\ days_since_update > 30
    THEN Min(25 * Twelfths, (days_since_update * 5 * Twelfths) \div 30)
    ELSE 0

\* the decay of lines 70-78, in twelfths: min(25, (days_since_update / 30) * 5)
\* the penalty applied from the second week without an update
TimeDecayAfterWeek(days_since_creation, days_since_update) ==
    IF days_since_creation > 90 /\ days_since_update > 7
    THEN Min(25 * Twelfths, (days_since_update * 5 * Twelfths) \div 30)
    ELSE 0

TimeDecay(days_since_creation, days_since_update) ==
    IF days_since_creation > 90 /\ days_since_update > 30
    THEN Min(25 * Twelfths, (days_since_update * 5 * Twelfths) \div 30)
    ELSE 0

calculate_trust_score_enhanced(metric, history, t) ==
    LET freshness_score == (check_freshness(metric, t) * 15 * Twelfths) \div 20
        test_score == (check_test_coverage(metric) * 35 * Twelfths) \div 25
        usage_score == check_usage(metric) * Twelfths
        doc_score == (check_documentation(metric) * 15 * Twelfths) \div 20
        ownership_score == check_ownership(metric) * Twelfths
        base_score == freshness_score + test_score + usage_score + doc_score
                      + ownership_score
        days_since_update == t - metric.updated_at
        recent_activity == IF days_since_update <= 7 THEN 10 * Twelfths
                           ELSE IF days_since_update <= 30 THEN 5 * Twelfths
                           ELSE 0
        consistency == ConsistencyBonus(history)
        days_since_creation == t - metric.created_at
        decay == TimeDecay(days_since_creation, days_since_update)
        final_score == Clamp(base_score + recent_activity + consistency - decay)
    IN  [ score |-> Round1(final_score),
          trend |-> IF history # <<>> THEN calculate_trend(history, t) ELSE "stable",
          breakdown |-> [ freshness |-> Round1(freshness_score),
                          tests |-> Round1(test_score),
                          usage |-> Round1(usage_score),
                          documentation |-> Round1(doc_score),
                          ownership |-> Round1(ownership_score) ],
          multipliers |-> [ recent_activity |-> recent_activity,
                            consistency |-> consistency,
                            time_decay |-> -decay ],
          recommendations |->
              get_recommendations(final_score, metric, freshness_score, test_score,
                                  usage_score, doc_score, ownership_score,
                                  days_since_update) ]

----------------------------------------------------------------------------
(* generate_sparkline of trust_scoring.py.  A string of block characters  *)
(* is a sequence of their code points.                                     *)

sparkline_chars ==
    << "U+2581", "U+2582", "U+2583", "U+2584",
       "U+2585", "U+2586", "U+2587", "U+2588" >>

SeqMin(scores) ==
    CHOOSE x \in { scores[i] : i \in 1..Len(scores) } :
        \A i \in 1..Len(scores) : x <= scores[i]

SeqMax(scores) ==
    CHOOSE x \in { scores[i] : i \in 1..Len(scores) } :
        \A i \in 1..Len(scores) : x >= scores[i]

\* the bars of a sequence that has a lowest and a different highest score
SparklineBars(scores) ==
    LET min_score == SeqMin(scores)
        max_score == SeqMax(scores)
    IN  IF max_score = min_score THEN [i \in 1..Len(scores) |-> "U+2584"]
        ELSE [ i \in 1..Len(scores) |->
                 LET char_index ==
                         Min(7, ((scores[i] - min_score) * 8)
                                    \div (max_score - min_score))
                 IN  sparkline_chars[char_index + 1] ]

\* the dash returned for every sequence shorter than three scores
generate_sparkline_short_pair(scores) ==
    IF Len(scores) < 3 THEN <<"U+2500">> ELSE SparklineBars(scores)

generate_sparkline(scores) ==
    IF Len(scores) < 2 THEN <<"U+2500">> ELSE SparklineBars(scores)

----------------------------------------------------------------------------
(* The registry and the lineage index of server.py *)

Registered == DOMAIN METRICS_STORE

\* dependency edges between registered metrics
Succ(m) ==
    IF m \in Registered THEN METRICS_STORE[m].dependencies \cap Registered ELSE {}

RECURSIVE Closure(_)
Closure(S) ==
    LET nxt == S \cup UNION { Succ(m) : m \in S }
    IN  IF nxt = S THEN S ELSE Closure(nxt)

\* the metrics reached from m by one or more dependency edges
ReachPlus(m) == Closure(Succ(m))

\* a directed cycle among registered metrics is reachable from id
CycleReachableFrom(id) == \E n \in {id} \cup ReachPlus(id) : n \in ReachPlus(n)

\* one visited set shared by all branches: true as soon as any metric is
\* reached twice, by a cycle or by two different paths
_has_circular_dependency_shared(metric_id, visited) ==
    LET R == {metric_id} \cup ReachPlus(metric_id)
        E == { e \in R \X R : e[2] \in Succ(e[1]) }
    IN  Cardinality(E) > Cardinality(R) - 1

RECURSIVE _has_circular_dependency(_, _)
\* the recursive call receives visited.copy(), taken after metric_id was added
_has_circular_dependency(metric_id, visited) ==
    IF metric_id \in visited THEN TRUE
    ELSE IF metric_id \in Registered
         THEN \E dep \in METRICS_STORE[metric_id].dependencies :
                  /\ dep \in Registered
                  /\ _has_circular_dependency(dep, visited \cup {metric_id})
         ELSE FALSE

\* [m for m, deps in LINEAGE_GRAPH.items() if metric_id in deps]
Downstream(metric_id) ==
    { m \in DOMAIN LINEAGE_GRAPH :
        \E i \in 1..Len(LINEAGE_GRAPH[m]) : LINEAGE_GRAPH[m][i] = metric_id }

\* LINEAGE_GRAPH[dep].append(metric_id) for every dep; a missing key starts as []
AddEdges(graph, metric_id, dependencies) ==
    [ k \in (DOMAIN graph) \cup dependencies |->
        LET old == IF k \in DOMAIN graph THEN graph[k] ELSE <<>>
        IN  IF k \in dependencies THEN Append(old, metric_id) ELSE old ]

\* the definition itself counted as a use
NewMetricUsedOnce(name, description, calculation, owner, tags, data_source) ==
    [ name |-> name,
      id |-> MetricId(name),
      description |-> description,
      calculation |-> calculation,
      owner |-> IF owner # <<>> THEN owner ELSE Unassigned,
      tags |-> ParseTags(tags),
      data_source |-> data_source,
      created_at |-> now,
      updated_at |-> now,
      dependencies |-> _extract_dependencies(calculation),
      usage_count |-> 1,
      test_count |-> 0,
      documentation_complete |->
          (description # <<>> /\ calculation # <<>> /\ owner # <<>>) ]

NewMetric(name, description, calculation, owner, tags, data_source) ==
    [ name |-> name,
      id |-> MetricId(name),
      description |-> description,
      calculation |-> calculation,
      owner |-> IF owner # <<>> THEN owner ELSE Unassigned,
      tags |-> ParseTags(tags),
      data_source |-> data_source,
      created_at |-> now,
      updated_at |-> now,
      dependencies |-> _extract_dependencies(calculation),
      usage_count |-> 0,
      test_count |-> 0,
      documentation_complete |->
          (description # <<>> /\ calculation # <<>> /\ owner # <<>>) ]

define_metric_edges_first(name, description, calculation, owner, tags, data_source) ==
    LET metric_id == MetricId(name)
        metric == NewMetric(name, description, calculation, owner, tags, data_source)
    IN  /\ IF name = <<>> \/ description = <<>> \/ calculation = <<>>
           THEN /\ result' = [op |-> "define_metric", status |-> "error",
                              name |-> name, required_given |-> FALSE]
                /\ UNCHANGED <<METRICS_STORE, LINEAGE_GRAPH>>
           ELSE IF metric_id \in Registered
           THEN /\ result' = [op |-> "define_metric", status |-> "exists",
                              name |-> name, required_given |-> TRUE]
                /\ UNCHANGED METRICS_STORE
                /\ LINEAGE_GRAPH' =
                      AddEdges(LINEAGE_GRAPH, metric_id, metric.dependencies)
           ELSE /\ METRICS_STORE' =
                      [ k \in Registered \cup {metric_id} |->
                          IF k = metric_id THEN metric ELSE METRICS_STORE[k] ]
                /\ LINEAGE_GRAPH' =
                      AddEdges(LINEAGE_GRAPH, metric_id, metric.dependencies)
                /\ result' = [op |-> "define_metric", status |-> "created",
                              name |-> name, required_given |-> TRUE,
                              trust_score |-> _calculate_trust_score(metric, now)]
        /\ UNCHANGED <<now, db, call>>

define_metric(name, description, calculation, owner, tags, data_source) ==
    LET metric_id == MetricId(name)
        metric == NewMetric(name, description, calculation, owner, tags, data_source)
    IN  /\ IF name = <<>> \/ description = <<>> \/ calculation = <<>>
           THEN /\ result' = [op |-> "define_metric", status |-> "error",
                              name |-> name, required_given |-> FALSE]
                /\ UNCHANGED <<METRICS_STORE, LINEAGE_GRAPH>>
           ELSE IF metric_id \in Registered
           THEN /\ result' = [op |-> "define_metric", status |-> "exists",
                              name |-> name, required_given |-> TRUE]
                /\ UNCHANGED <<METRICS_STORE, LINEAGE_GRAPH>>
           ELSE /\ METRICS_STORE' =
                      [ k \in Registered \cup {metric_id} |->
                          IF k = metric_id THEN metric ELSE METRICS_STORE[k] ]
                /\ LINEAGE_GRAPH' =
                      AddEdges(LINEAGE_GRAPH, metric_id, metric.dependencies)
                /\ result' = [op |-> "define_metric", status |-> "created",
                              name |-> name, required_given |-> TRUE,
                              trust_score |-> _calculate_trust_score(metric, now)]
        /\ UNCHANGED <<now, db, call>>

\* the tree _build_dependency_tree draws, as the set of its top-level nodes;
\* a call nested deeper than RecursionLimit frames raises RecursionError
RECURSIVE _build_dependency_tree(_, _, _)
_build_dependency_tree(deps, depth, frames) ==
    IF frames > RecursionLimit THEN [raised |-> TRUE, tree |-> {}]
    ELSE IF depth = 0 \/ deps = {} THEN [raised |-> FALSE, tree |-> {}]
    ELSE LET registered == deps \cap Registered
             sub == [ dep \in registered |->
                        _build_dependency_tree(METRICS_STORE[dep].dependencies,
                                               depth - 1, frames + 1) ]
             raised == \E dep \in registered : sub[dep].raised
         IN  [ raised |-> raised,
               tree |-> IF raised THEN {}
                        ELSE { [ name |-> dep,
                                 children |-> IF dep \in registered
                                              THEN sub[dep].tree ELSE {} ] :
                               dep \in deps } ]

visualize_lineage(metric_name, depth) ==
    LET metric_id == MetricId(metric_name)
    IN  /\ IF metric_id \notin Registered
           THEN result' = [op |-> "visualize_lineage", status |-> "not_found",
                           id |-> metric_id]
           ELSE LET upstream ==
                        _build_dependency_tree(METRICS_STORE[metric_id].dependencies,
                                               depth, 1)
                IN  IF upstream.raised
                    THEN result' = [op |-> "visualize_lineage",
                                    status |-> "RecursionError",
                                    id |-> metric_id, depth |-> depth]
                    ELSE result' = [op |-> "visualize_lineage", status |-> "ok",
                                    id |-> metric_id, depth |-> depth,
                                    upstream |-> upstream.tree,
                                    downstream |-> Downstream(metric_id),
                                    direct_dependencies |->
                                        Cardinality(METRICS_STORE[metric_id].dependencies),
                                    direct_dependents |->
                                        Cardinality(Downstream(metric_id))]
        /\ UNCHANGED <<METRICS_STORE, LINEAGE_GRAPH, now, db, call>>

\* validation that removes the dependencies of a metric found on a cycle
validate_metric_breaking_cycles(metric_name, test_description) ==
    LET metric_id == MetricId(metric_name)
    IN  /\ IF metric_id \notin Registered
           THEN /\ result' = [op |-> "validate_metric", status |-> "not_found",
                              id |-> metric_id]
                /\ UNCHANGED METRICS_STORE
           ELSE LET old == METRICS_STORE[metric_id]
                    missing == { dep \in old.dependencies :
                                   dep \notin Registered /\ ~_is_table_reference(dep) }
                    circular == _has_circular_dependency(metric_id, {})
                    tested == IF test_description # <<>>
                              THEN [old EXCEPT !.test_count = @ + 1,
                                               !.updated_at = now]
                              ELSE old
                    metric == IF circular THEN [tested EXCEPT !.dependencies = {}]
                              ELSE tested
                    \* both scores are computed after the test was counted
                    old_trust == _calculate_trust_score(metric, now)
                    new_trust == _calculate_trust_score(metric, now)
                IN  /\ METRICS_STORE' = [METRICS_STORE EXCEPT ![metric_id] = metric]
                    /\ result' = [op |-> "validate_metric", status |-> "ok",
                                  id |-> metric_id,
                                  circular |-> circular,
                                  issues |-> Cardinality(missing)
                                             + (IF circular THEN 1 ELSE 0),
                                  test_added |-> (test_description # <<>>),
                                  old_trust |-> old_trust,
                                  new_trust |-> new_trust]
        /\ UNCHANGED <<LINEAGE_GRAPH, now, db, call>>

validate_metric_stamping_created(metric_name, test_description) ==
    LET metric_id == MetricId(metric_name)
    IN  /\ IF metric_id \notin Registered
           THEN /\ result' = [op |-> "validate_metric", status |-> "not_found",
                              id |-> metric_id]
                /\ UNCHANGED METRICS_STORE
           ELSE LET old == METRICS_STORE[metric_id]
                    missing == { dep \in old.dependencies :
                                   dep \notin Registered /\ ~_is_table_reference(dep) }
                    circular == _has_circular_dependency(metric_id, {})
                    metric == IF test_description # <<>>
                              THEN [old EXCEPT !.test_count = @ + 1,
                                               !.created_at = now]
                              ELSE old
                    \* both scores are computed after the test was counted
                    old_trust == _calculate_trust_score(metric, now)
                    new_trust == _calculate_trust_score(metric, now)
                IN  /\ METRICS_STORE' = [METRICS_STORE EXCEPT ![metric_id] = metric]
                    /\ result' = [op |-> "validate_metric", status |-> "ok",
                                  id |-> metric_id,
                                  circular |-> circular,
                                  issues |-> Cardinality(missing)
                                             + (IF circular THEN 1 ELSE 0),
                                  test_added |-> (test_description # <<>>),
                                  old_trust |-> old_trust,
                                  new_trust |-> new_trust]
        /\ UNCHANGED <<LINEAGE_GRAPH, now, db, call>>

validate_metric(metric_name, test_description) ==
    LET metric_id == MetricId(metric_name)
    IN  /\ IF metric_id \notin Registered
           THEN /\ result' = [op |-> "validate_metric", status |-> "not_found",
                              id |-> metric_id]
                /\ UNCHANGED METRICS_STORE
           ELSE LET old == METRICS_STORE[metric_id]
                    missing == { dep \in old.dependencies :
                                   dep \notin Registered /\ ~_is_table_reference(dep) }
                    circular == _has_circular_dependency(metric_id, {})
                    metric == IF test_description # <<>>
                              THEN [old EXCEPT !.test_count = @ + 1,
                                               !.updated_at = now]
                              ELSE old
                    \* both scores are computed after the test was counted
                    old_trust == _calculate_trust_score(metric, now)
                    new_trust == _calculate_trust_score(metric, now)
                IN  /\ METRICS_STORE' = [METRICS_STORE EXCEPT ![metric_id] = metric]
                    /\ result' = [op |-> "validate_metric", status |-> "ok",
                                  id |-> metric_id,
                                  circular |-> circular,
                                  issues |-> Cardinality(missing)
                                             + (IF circular THEN 1 ELSE 0),
                                  test_added |-> (test_description # <<>>),
                                  old_trust |-> old_trust,
                                  new_trust |-> new_trust]
        /\ UNCHANGED <<LINEAGE_GRAPH, now, db, call>>

----------------------------------------------------------------------------
(* The metrics table of database.py *)

None == "None"

\* the day d days before the clock's day 0
AtAge(d) == 0 - d

\* the five tables of _create_schema, empty; the tables other than metrics
\* are kept in insertion (AUTOINCREMENT id) order
EmptyDb ==
    [ metrics |-> <<>>, metric_history |-> <<>>, validation_tests |-> <<>>,
      metric_usage |-> <<>>, trust_score_history |-> <<>> ]

\* json.dumps of a list: the stored text is not the list
JsonDumps(v) == [json |-> v]

JsonLoads(t) == t.json

\* the text columns declared NOT NULL that create_metric fills from
\* metric_data (the timestamps of the model are always given)
NotNullViolated(metric_data) ==
    \/ metric_data.name = None
    \/ metric_data.calculation = None

MetricRow(metric_id, metric_data) ==
    [ id |-> metric_id,
      name |-> metric_data.name,
      description |-> metric_data.description,
      calculation |-> metric_data.calculation,
      owner |-> metric_data.owner,
      data_source |-> metric_data.data_source,
      tags |-> JsonDumps(metric_data.tags),
      dependencies |-> JsonDumps(metric_data.dependencies),
      test_count |-> metric_data.test_count,
      usage_count |-> metric_data.usage_count,
      created_at |-> metric_data.created_at,
      updated_at |-> metric_data.updated_at,
      trust_score |-> metric_data.trust_score ]

\* INSERT INTO metrics; sqlite3.IntegrityError (primary key, NOT NULL) -> False
create_metric(metric_id, metric_data) ==
    /\ IF metric_id \in DOMAIN db.metrics \/ NotNullViolated(metric_data)
       THEN /\ result' = [op |-> "create_metric", id |-> metric_id,
                          data |-> metric_data, ok |-> FALSE]
            /\ UNCHANGED db
       ELSE /\ db' = [db EXCEPT !.metrics =
                        [ k \in (DOMAIN db.metrics) \cup {metric_id} |->
                            IF k = metric_id THEN MetricRow(metric_id, metric_data)
                            ELSE db.metrics[k] ]]
            /\ result' = [op |-> "create_metric", id |-> metric_id,
                          data |-> metric_data, ok |-> TRUE]
    /\ UNCHANGED <<METRICS_STORE, LINEAGE_GRAPH, now, call>>

\* the last repository call: its name, arguments and returned value
DbResult(op, metric_id, args, value) ==
    [op |-> op, id |-> metric_id, args |-> args, value |-> value]

_row_to_dict(row) ==
    [row EXCEPT !.tags = JsonLoads(@), !.dependencies = JsonLoads(@)]

get_metric(metric_id) ==
    IF metric_id \in DOMAIN db.metrics THEN _row_to_dict(db.metrics[metric_id])
    ELSE None

\* str(value), the text written to old_value and new_value
PyStr(v) == ToString(v)

\* the order in which updates.items() is walked
UPDATE_FIELDS == <<"owner", "tags", "test_count", "updated_at">>

\* the history rows of one update_metric call: one per field of updates that
\* is a column of the metric and differs from the stored value
RECURSIVE ChangeRows(_, _, _, _, _)
ChangeRows(fields, metric_id, current, updates, changed_by) ==
    IF fields = <<>> THEN <<>>
    ELSE LET field == Head(fields)
             rest == ChangeRows(Tail(fields), metric_id, current, updates, changed_by)
         IN  IF /\ field \in DOMAIN updates
                /\ field \in DOMAIN current
                /\ current[field] # updates[field]
             THEN << [ metric_id |-> metric_id, field_name |-> field,
                       old_value |-> PyStr(current[field]),
                       new_value |-> PyStr(updates[field]),
                       changed_by |-> changed_by, changed_at |-> now ] >> \o rest
             ELSE rest

\* the assignment of updates to updated_at kept instead of the appended one
UpdatedRowLeftmost(row, updates) ==
    [ f \in DOMAIN row |->
        IF f \in DOMAIN updates
        THEN IF f \in {"tags", "dependencies"} THEN JsonDumps(updates[f])
             ELSE updates[f]
        ELSE IF f = "updated_at" THEN now ELSE row[f] ]

\* UPDATE metrics SET field = ?, ..., updated_at = ? : of two assignments to
\* one column SQLite keeps the rightmost, which is the appended updated_at
UpdatedRow(row, updates) ==
    [ f \in DOMAIN row |->
        IF f = "updated_at" THEN now
        ELSE IF f \in DOMAIN updates
             THEN IF f \in {"tags", "dependencies"} THEN JsonDumps(updates[f])
                  ELSE updates[f]
             ELSE row[f] ]

update_metric(metric_id, updates, changed_by) ==
    LET current == get_metric(metric_id)
    IN  /\ IF metric_id \notin DOMAIN db.metrics   \* get_metric gave None
           THEN /\ result' = DbResult("update_metric", metric_id,
                                      <<updates, changed_by>>, FALSE)
                /\ UNCHANGED db
           ELSE /\ db' = [db EXCEPT
                     !.metric_history =
                         @ \o ChangeRows(UPDATE_FIELDS, metric_id, current,
                                         updates, changed_by),
                     !.metrics[metric_id] = UpdatedRow(@, updates)]
                /\ result' = DbResult("update_metric", metric_id,
                                      <<updates, changed_by>>, TRUE)
        /\ UNCHANGED <<METRICS_STORE, LINEAGE_GRAPH, now, call>>

\* SELECT COUNT(*) FROM table WHERE metric_id = ?
RowCount(table, metric_id) ==
    Cardinality({ i \in 1..Len(table) : table[i].metric_id = metric_id })

\* UPDATE metrics SET column = count WHERE id = ? (no row: nothing changes)
SetCount(metrics, metric_id, column, count) ==
    [ k \in DOMAIN metrics |->
        IF k = metric_id THEN [metrics[k] EXCEPT ![column] = count]
        ELSE metrics[k] ]

add_validation_test(metric_id, test_type) ==
    LET tests == Append(db.validation_tests,
                        [metric_id |-> metric_id, test_type |-> test_type,
                         status |-> "pending"])
    IN  /\ db' = [db EXCEPT
                    !.validation_tests = tests,
                    !.metrics = SetCount(@, metric_id, "test_count",
                                         RowCount(tests, metric_id))]
        /\ result' = DbResult("add_validation_test", metric_id,
                              <<test_type>>, Len(tests))
        /\ UNCHANGED <<METRICS_STORE, LINEAGE_GRAPH, now, call>>

record_usage(metric_id, used_by) ==
    LET usage == Append(db.metric_usage,
                        [metric_id |-> metric_id, used_by |-> used_by,
                         at |-> now])
    IN  /\ db' = [db EXCEPT
                    !.metric_usage = usage,
                    !.metrics = SetCount(@, metric_id, "usage_count",
                                         RowCount(usage, metric_id))]
        /\ result' = DbResult("record_usage", metric_id, <<used_by>>, None)
        /\ UNCHANGED <<METRICS_STORE, LINEAGE_GRAPH, now, call>>

\* lengths of the months of a common year
MonthLengths == <<31, 28, 31, 30, 31, 30, 31, 31, 30, 31, 30, 31>>

\* datetime(day number).day, day 0 being 1 January
RECURSIVE DayInMonth(_, _)
DayInMonth(n, month) ==
    IF n < MonthLengths[month] THEN n + 1
    ELSE DayInMonth(n - MonthLengths[month], (month % 12) + 1)

DayOfMonth(t) == DayInMonth(t, 1)

\* datetime.replace(day=d) raises ValueError unless d is a day of the month;
\* with days >= 0 the new day is never past the end of the month
ReplaceDayRaises(t, days) == DayOfMonth(t) - days < 1

\* the date replace(day=from_date.day - days) gives when it does not raise
ReplaceDay(t, days) == t - days

\* what a query hands back: the exception it raised, or its return value
Raised(exception) == [raised |-> exception, returned |-> <<>>]

Returned(value) == [raised |-> None, returned |-> value]

Reverse(q) == [i \in 1..Len(q) |-> q[Len(q) + 1 - i]]

RECURSIVE SelectRows(_, _, _)
SelectRows(table, metric_id, from_date) ==
    IF table = <<>> THEN <<>>
    ELSE LET row == Head(table)
             rest == SelectRows(Tail(table), metric_id, from_date)
         IN  IF row.metric_id = metric_id /\ row.at >= from_date
             THEN <<row>> \o rest ELSE rest

record_trust_score(metric_id, score, breakdown) ==
    /\ db' = [db EXCEPT !.trust_score_history =
                 Append(@, [metric_id |-> metric_id, score |-> score,
                            breakdown |-> JsonDumps(breakdown), at |-> now])]
    /\ result' = DbResult("record_trust_score", metric_id, <<score>>, None)
    /\ UNCHANGED <<METRICS_STORE, LINEAGE_GRAPH, now, call>>

\* rows are inserted in time order, so ORDER BY recorded_at DESC reverses them
get_trust_score_history(metric_id, days) ==
    /\ result' = DbResult("get_trust_score_history", metric_id, <<days>>,
            IF ReplaceDayRaises(now, days) THEN Raised("ValueError")
            ELSE LET rows == Reverse(SelectRows(db.trust_score_history, metric_id,
                                                ReplaceDay(now, days)))
                 IN  Returned([ i \in 1..Len(rows) |->
                                  [ score |-> rows[i].score,
                                    breakdown |-> JsonLoads(rows[i].breakdown),
                                    recorded_at |-> rows[i].at ] ]))
    /\ UNCHANGED <<METRICS_STORE, LINEAGE_GRAPH, now, db, call>>

get_usage_stats(metric_id, days) ==
    /\ result' = DbResult("get_usage_stats", metric_id, <<days>>,
            IF ReplaceDayRaises(now, days) THEN Raised("ValueError")
            ELSE LET rows == SelectRows(db.metric_usage, metric_id,
                                        ReplaceDay(now, days))
                 IN  Returned([ total_uses |-> Len(rows),
                                unique_users |->
                                    Cardinality({ rows[i].used_by :
                                                    i \in 1..Len(rows) }) ]))
    /\ UNCHANGED <<METRICS_STORE, LINEAGE_GRAPH, now, db, call>>

\* SELECT * FROM metric_history WHERE metric_id = ? ORDER BY changed_at DESC
\* LIMIT ? ; rows are inserted in time order
RECURSIVE HistoryRowsOf(_, _)
HistoryRowsOf(table, metric_id) ==
    IF table = <<>> THEN <<>>
    ELSE IF Head(table).metric_id = metric_id
         THEN <<Head(table)>> \o HistoryRowsOf(Tail(table), metric_id)
         ELSE HistoryRowsOf(Tail(table), metric_id)

get_metric_history(metric_id, limit) ==
    LET rows == Reverse(HistoryRowsOf(db.metric_history, metric_id))
    IN  SubSeq(rows, 1, Min(limit, Len(rows)))

\* the tool of server.py lines 955-1034: the enhanced score of a registered
\* metric, with the 90-day sparkline on request, recorded as a snapshot
calculate_trust_score_enhanced_tool(metric_name, show_history) ==
    LET metric_id == MetricId(metric_name)
    IN  /\ IF metric_id \notin Registered
           THEN /\ result' = [op |-> "calculate_trust_score_enhanced_tool",
                              status |-> "not_found", id |-> metric_id,
                              show_history |-> show_history]
                /\ UNCHANGED db
           ELSE LET metric == METRICS_STORE[metric_id]
                    history == get_metric_history(metric_id, 30)
                    score_data == calculate_trust_score_enhanced(metric, history, now)
                    \* db.get_trust_score_history(metric_id, days=90)
                    trust_history ==
                        Reverse(SelectRows(db.trust_score_history, metric_id,
                                           ReplaceDay(now, 90)))
                    scores == [i \in 1..Len(trust_history) |-> trust_history[i].score]
                IN  IF show_history /\ ReplaceDayRaises(now, 90)
                    THEN /\ result' = [op |-> "calculate_trust_score_enhanced_tool",
                                       status |-> "ValueError", id |-> metric_id,
                                       show_history |-> show_history]
                         /\ UNCHANGED db
                    ELSE /\ result' =
                              [op |-> "calculate_trust_score_enhanced_tool",
                               status |-> "ok", id |-> metric_id,
                               show_history |-> show_history,
                               score_data |-> score_data,
                               sparkline |->
                                   IF show_history /\ Len(trust_history) >= 2
                                   THEN generate_sparkline(
                                            SubSeq(scores, 1, Min(30, Len(scores))))
                                   ELSE <<>>]
                         /\ db' = [db EXCEPT !.trust_score_history =
                                      Append(@, [metric_id |-> metric_id,
                                                 score |-> score_data.score,
                                                 breakdown |->
                                                     JsonDumps(score_data.breakdown),
                                                 at |-> now])]
        /\ UNCHANGED <<METRICS_STORE, LINEAGE_GRAPH, now, call>>

\* the rows of a table that belong to other metrics
RECURSIVE DeleteRows(_, _)
DeleteRows(table, metric_id) ==
    IF table = <<>> THEN <<>>
    ELSE IF Head(table).metric_id = metric_id THEN DeleteRows(Tail(table), metric_id)
         ELSE <<Head(table)>> \o DeleteRows(Tail(table), metric_id)

\* DELETE FROM validation_tests, metric_usage, metric_history and metrics;
\* returns whether the last DELETE removed a row
delete_metric(metric_id) ==
    /\ db' = [db EXCEPT
                !.validation_tests = DeleteRows(@, metric_id),
                !.metric_usage = DeleteRows(@, metric_id),
                !.metric_history = DeleteRows(@, metric_id),
                !.metrics = [ k \in (DOMAIN @) \ {metric_id} |-> @[k] ]]
    /\ result' = DbResult("delete_metric", metric_id, <<>>,
                          metric_id \in DOMAIN db.metrics)
    /\ UNCHANGED <<METRICS_STORE, LINEAGE_GRAPH, now, call>>

----------------------------------------------------------------------------
(* Inputs of the registry specification *)

NoCall == [fn |-> "none"]

NoResult == [op |-> "none"]

NAMES ==
    { <<"a", ".", "b">>, <<"A", ".", "B">>, <<"c", ".", "d">>,
      <<"e", " ", ".", "f">>, <<>> }

SELECT == <<"S", "E", "L", "E", "C", "T">>

\* the qualified references a calculation may mention
REFS == << <<"a", ".", "b">>, <<"C", ".", "D">>, <<"e", "_", ".", "f">> >>

\* "SELECT" followed by at most MaxRefs references in index order; or nothing
CALCS ==
    {<<>>} \cup
    UNION { { <<SELECT>> \o [i \in 1..n |-> REFS[f[i]]] :
                f \in { g \in [1..n -> 1..Len(REFS)] :
                          \A i, j \in 1..n : i < j => g[i] < g[j] } } :
            n \in 0..MaxRefs }

DESCRIPTIONS == { <<"m">> }

Init ==
    /\ METRICS_STORE = <<>>
    /\ LINEAGE_GRAPH = <<>>
    /\ now = 0
    /\ db = EmptyDb
    /\ call = NoCall
    /\ result = NoResult

DefineMetric ==
    \E name \in NAMES, description \in DESCRIPTIONS, calculation \in CALCS :
        define_metric(name, description, calculation, <<>>, <<>>, <<>>)

\* the tool called with its default depth
VisualizeLineage == \E name \in NAMES : visualize_lineage(name, 3)

ValidateMetric == \E name \in NAMES : validate_metric(name, <<>>)

Next == DefineMetric \/ VisualizeLineage \/ ValidateMetric

Spec == Init /\ [][Next]_vars

----------------------------------------------------------------------------
(* The registry and the repository side by side: creation and re-creation *)

OWNERS == { <<>>, <<"@", "t">> }

STORE_CALCS == { <<>>, <<SELECT>>, <<SELECT, REFS[1]>> }

DB_IDS == { "m1", "m2" }

DB_METRICS ==
    { [ name |-> n, description |-> "d", calculation |-> "c", owner |-> o,
        data_source |-> "s", tags |-> <<"t">>, dependencies |-> <<>>,
        test_count |-> 0, usage_count |-> 0, created_at |-> 0,
        updated_at |-> 0, trust_score |-> 0 ] :
      n \in {None, "n1", "n2"}, o \in {"o1"} }

STORE_NAMES == { <<"a", ".", "b">>, <<"A", ".", "B">>, <<"c", ".", "d">>, <<>> }

DefineMetricStore ==
    \E name \in STORE_NAMES, description \in { <<>>, <<"m">> },
       calculation \in STORE_CALCS, owner \in OWNERS :
        define_metric(name, description, calculation, owner, <<>>, <<>>)

CreateMetric ==
    \E metric_id \in DB_IDS, metric_data \in DB_METRICS :
        create_metric(metric_id, metric_data)

NextStore == DefineMetricStore \/ CreateMetric

SpecStore == Init /\ [][NextStore]_vars

----------------------------------------------------------------------------
(* The registry with tests added through validate_metric *)

VALIDATE_NAMES == { <<"a", ".", "b">>, <<"c", ".", "d">> }

DefineMetricValidate ==
    \E name \in VALIDATE_NAMES, calculation \in STORE_CALCS, owner \in OWNERS :
        define_metric(name, <<"m">>, calculation, owner, <<>>, <<>>)

ValidateMetricTest ==
    \E metric_name \in VALIDATE_NAMES, test_description \in { <<>>, <<"t">> } :
        /\ (MetricId(metric_name) \in Registered) =>
               (METRICS_STORE[MetricId(metric_name)].test_count < MaxTestCount)
        /\ validate_metric(metric_name, test_description)

NextValidate == DefineMetricValidate \/ ValidateMetricTest

SpecValidate == Init /\ [][NextValidate]_vars

----------------------------------------------------------------------------
(* The registry with lineage drawn to every depth *)

LINEAGE_NAMES == { <<"a", ".", "b">>, <<"c", ".", "d">>, <<"e", " ", ".", "f">> }

DEPTHS == {0 - 1, 0, 1, 2, 3}

DefineMetricLineage ==
    \E name \in LINEAGE_NAMES, calculation \in CALCS \ {<<>>} :
        define_metric(name, <<"m">>, calculation, <<>>, <<>>, <<>>)

VisualizeLineageDepth ==
    \E name \in LINEAGE_NAMES, depth \in DEPTHS : visualize_lineage(name, depth)

NextLineage == DefineMetricLineage \/ VisualizeLineageDepth

SpecLineage == Init /\ [][NextLineage]_vars

----------------------------------------------------------------------------
(* The registry tools called on different days *)

\* most rows a table other than metrics holds
MaxRows == 2

\* most tests added to one metric through validate_metric
MaxTests == 2

\* most days the clock advances
MaxClock == 1

TOOL_NAMES == { <<"a", ".", "b">>, <<"c", ".", "d">> }

\* no reference, a.b referenced twice, a reference to c.d
TOOL_CALCS == { <<SELECT>>, <<SELECT, REFS[1], REFS[1]>>, <<SELECT, REFS[2]>> }

DefineMetricTool ==
    \E name \in TOOL_NAMES \cup {<<"A", ".", "B">>}, calculation \in TOOL_CALCS :
        define_metric(name, <<"m">>, calculation, <<>>, <<>>, <<>>)

ValidateMetricTool ==
    \E metric_name \in TOOL_NAMES, test_description \in { <<>>, <<"t">> } :
        /\ (MetricId(metric_name) \in Registered) =>
               (METRICS_STORE[MetricId(metric_name)].test_count < MaxTests)
        /\ validate_metric(metric_name, test_description)

\* a day passes between two tool calls
AdvanceDay ==
    /\ now < MaxClock
    /\ now' = now + 1
    /\ UNCHANGED <<METRICS_STORE, LINEAGE_GRAPH, db, call, result>>

NextTools == DefineMetricTool \/ ValidateMetricTool \/ AdvanceDay

SpecTools == Init /\ [][NextTools]_vars

----------------------------------------------------------------------------
(* The registry scored by the enhanced tool, snapshots recorded *)

DefineMetricScored ==
    \E calculation \in { <<SELECT>>, <<SELECT, REFS[1]>> },
       owner \in OWNERS, data_source \in { <<>>, <<"s">> } :
        define_metric(<<"a", ".", "b">>, <<"m">>, calculation, owner, <<>>,
                      data_source)

ValidateMetricScored ==
    /\ (<<"a", ".", "b">> \in Registered) =>
           (METRICS_STORE[<<"a", ".", "b">>].test_count < MaxTests)
    /\ validate_metric(<<"a", ".", "b">>, <<"t">>)

EnhancedScoreTool ==
    /\ Len(db.trust_score_history) < MaxRows
    /\ \E metric_name \in TOOL_NAMES, show_history \in BOOLEAN :
           calculate_trust_score_enhanced_tool(metric_name, show_history)

NextScoreTool ==
    \/ DefineMetricScored
    \/ ValidateMetricScored
    \/ EnhancedScoreTool

SpecScoreTool == Init /\ [][NextScoreTool]_vars

----------------------------------------------------------------------------
(* The repository: metrics created, updated, tested and used *)

REPO_IDS == { "m1", "m2" }

\* a metric as handed to create_metric, with the counts its creator chose
RepoMetric(owner, tests, usage) ==
    [ name |-> "n1", description |-> "d", calculation |-> "c", owner |-> owner,
      data_source |-> "s", tags |-> <<"t">>, dependencies |-> <<>>,
      test_count |-> tests, usage_count |-> usage, created_at |-> now,
      updated_at |-> now, trust_score |-> 0 ]

REPO_COUNTS == { <<0, 0>>, <<3, 2>> }

\* the update dictionaries: every subset of three fields with one new value each
REPO_UPDATES ==
    LET values == [ owner |-> "o2", tags |-> <<"t", "u">>, updated_at |-> AtAge(1) ]
    IN  { [ f \in S |-> values[f] ] : S \in SUBSET {"owner", "tags", "updated_at"} }

CreateMetricRepo ==
    \E metric_id \in { "m1" }, c \in REPO_COUNTS :
        create_metric(metric_id, RepoMetric("o1", c[1], c[2]))

UpdateMetric ==
    /\ Len(db.metric_history) < MaxRows
    /\ \E metric_id \in REPO_IDS, updates \in REPO_UPDATES :
           update_metric(metric_id, updates, "u1")

AddValidationTest ==
    /\ Len(db.validation_tests) < MaxRows
    /\ \E metric_id \in REPO_IDS : add_validation_test(metric_id, "t")

RecordUsage ==
    /\ Len(db.metric_usage) < MaxRows
    /\ \E metric_id \in REPO_IDS : record_usage(metric_id, "u1")

NextRepo ==
    \/ CreateMetricRepo
    \/ UpdateMetric
    \/ AddValidationTest
    \/ RecordUsage

SpecRepo == Init /\ [][NextRepo]_vars

----------------------------------------------------------------------------
(* The repository with metrics deleted and created again *)

CreateMetricDeletable == create_metric("m1", RepoMetric("o1", 0, 0))

UpdateMetricDeletable ==
    /\ Len(db.metric_history) < MaxRows
    /\ update_metric("m1", [owner |-> "o2"], "u1")

AddTestDeletable ==
    /\ Len(db.validation_tests) < MaxRows
    /\ add_validation_test("m1", "t")

RecordUsageDeletable ==
    /\ Len(db.metric_usage) < MaxRows
    /\ record_usage("m1", "u1")

RecordTrustScoreDeletable ==
    /\ Len(db.trust_score_history) < MaxRows
    /\ record_trust_score("m1", 50, [tests |-> 0])

DeleteMetric == \E metric_id \in REPO_IDS : delete_metric(metric_id)

NextDelete ==
    \/ CreateMetricDeletable
    \/ UpdateMetricDeletable
    \/ AddTestDeletable
    \/ RecordUsageDeletable
    \/ RecordTrustScoreDeletable
    \/ DeleteMetric

SpecDelete == Init /\ [][NextDelete]_vars

----------------------------------------------------------------------------
(* The repository's day-window queries, on several dates of the year *)

\* 1 and 31 January, 28 February, 31 March
WINDOW_DATES == {0, 30, 58, 89}

WINDOW_DAYS == {0, 1, 30, 90}

InitWindow ==
    /\ METRICS_STORE = <<>>
    /\ LINEAGE_GRAPH = <<>>
    /\ now \in WINDOW_DATES
    /\ db = EmptyDb
    /\ call = [fn |-> "window", started |-> now]
    /\ result = NoResult

RecordTrustScore ==
    /\ Len(db.trust_score_history) < MaxRows
    /\ record_trust_score("m1", 50, [tests |-> 0])

RecordUsageWindow ==
    /\ Len(db.metric_usage) < MaxRows
    /\ record_usage("m1", "u1")

GetTrustScoreHistory ==
    \E metric_id \in REPO_IDS, days \in WINDOW_DAYS :
        get_trust_score_history(metric_id, days)

GetUsageStats ==
    \E days \in WINDOW_DAYS : get_usage_stats("m1", days)

\* a day passes between two calls
AdvanceClock ==
    /\ now < call.started + MaxClock
    /\ now' = now + 1
    /\ UNCHANGED <<METRICS_STORE, LINEAGE_GRAPH, db, call, result>>

NextWindow ==
    \/ RecordTrustScore
    \/ RecordUsageWindow
    \/ GetTrustScoreHistory
    \/ GetUsageStats
    \/ AdvanceClock

SpecWindow == InitWindow /\ [][NextWindow]_vars

----------------------------------------------------------------------------
(* _calculate_similarity of server.py.  The float it returns is the exact *)
(* fraction num / den.                                                     *)

Whitespace == {" ", "\t", "\n"}

\* str.split() without arguments: the maximal runs of non-whitespace
RECURSIVE SplitWhitespace(_, _)
SplitWhitespace(s, cur) ==
    IF s = <<>> THEN (IF cur = <<>> THEN <<>> ELSE <<cur>>)
    ELSE IF Head(s) \in Whitespace
         THEN (IF cur = <<>> THEN <<>> ELSE <<cur>>)
              \o SplitWhitespace(Tail(s), <<>>)
         ELSE SplitWhitespace(Tail(s), Append(cur, Head(s)))

SeqToSet(q) == { q[i] : i \in 1..Len(q) }

DescriptionWords(description) ==
    SeqToSet(SplitWhitespace(StrLower(description), <<>>))

\* the description and tag terms as fractions; a term left out is 0/1
DescriptionOverlap(m1, m2) ==
    LET desc1_words == DescriptionWords(m1.description)
        desc2_words == DescriptionWords(m2.description)
    IN  IF desc1_words # {} /\ desc2_words # {}
        THEN [ num |-> Cardinality(desc1_words \cap desc2_words),
               den |-> Cardinality(desc1_words \cup desc2_words) ]
        ELSE [ num |-> 0, den |-> 1 ]

TagOverlap(m1, m2) ==
    LET tags1 == SeqToSet(m1.tags)
        tags2 == SeqToSet(m2.tags)
    IN  IF tags1 # {} \/ tags2 # {}
        THEN [ num |-> Cardinality(tags1 \cap tags2),
               den |-> Max(Cardinality(tags1 \cup tags2), 1) ]
        ELSE [ num |-> 0, den |-> 1 ]

SimilaritySum(d, g, source) ==
    [ num |-> 4 * d.num * g.den + 3 * g.num * d.den + 3 * source * d.den * g.den,
      den |-> 10 * d.den * g.den ]

\* the data-source term granted to two empty data sources as well
_calculate_similarity_empty_source(m1, m2) ==
    SimilaritySum(DescriptionOverlap(m1, m2), TagOverlap(m1, m2),
                  IF m1.data_source = m2.data_source THEN 1 ELSE 0)

_calculate_similarity(m1, m2) ==
    SimilaritySum(DescriptionOverlap(m1, m2), TagOverlap(m1, m2),
                  IF m1.data_source = m2.data_source /\ m1.data_source # <<>>
                  THEN 1 ELSE 0)

----------------------------------------------------------------------------
(* The enhanced scorer applied to metric records and histories.  The clock *)
(* stands at day 0; a timestamp of age d is day -d.                        *)

UPDATE_AGES == {0, 7, 8, 30, 31, 90, 91, 100, 180, 181}

CREATED_AGES == {90, 91, 200}

USAGE_COUNTS == {0, 1, 10, 20, 50}

SCORE_OWNERS == { <<>>, Unassigned, <<"@", "t">> }

History(ages) == [i \in 1..Len(ages) |-> [changed_at |-> AtAge(ages[i])]]

\* most recent first: none; five changes ten days apart; five with one
\* 31-day gap; four changes; eleven with a 31-day gap after the tenth;
\* eleven with a 31-day gap before the tenth
SCORE_HISTORIES ==
    { <<>>, History(<<0, 10, 20, 30, 40>>), History(<<0, 10, 20, 30, 61>>),
      History(<<0, 10, 20, 30>>),
      History(<<0, 1, 2, 3, 4, 5, 6, 7, 8, 38, 69>>),
      History(<<0, 1, 2, 3, 4, 5, 6, 7, 8, 39, 40>>) }

ScoredMetric(upd, cre, tests, usage, desc, source, tags, deps, owner) ==
    [ description |-> desc, data_source |-> source, tags |-> tags,
      dependencies |-> deps, owner |-> owner, test_count |-> tests,
      usage_count |-> usage, created_at |-> AtAge(cre), updated_at |-> AtAge(upd) ]

\* every age, count, owner and history, with documentation empty or complete
SCORE_METRICS_LEVELS ==
    { ScoredMetric(upd, cre, tests, usage, d[1], d[2], d[3], d[4], owner) :
        upd \in UPDATE_AGES, cre \in CREATED_AGES, tests \in 0..MaxTestCount,
        usage \in USAGE_COUNTS, owner \in SCORE_OWNERS,
        d \in { <<Str(0, "x"), <<>>, <<>>, {}>>,
                <<Str(21, "x"), <<"s">>, <<<<"t">>>>, {REFS[1]}>> } }

\* every combination of the documentation fields, at the extremes of the rest
SCORE_METRICS_DOCS ==
    { ScoredMetric(a[1], a[2], tests, usage, desc, source, tags, deps, owner) :
        a \in { <<0, 90>>, <<100, 200>>, <<181, 200>> },
        tests \in {0, MaxTestCount}, usage \in {0, 50},
        owner \in { Unassigned, <<"@", "t">> },
        desc \in { Str(0, "x"), Str(20, "x"), Str(21, "x") },
        source \in { <<>>, <<"s">> }, tags \in { <<>>, <<<<"t">>>> },
        deps \in { {}, {REFS[1]} } }

SCORE_CALLS ==
    { [fn |-> "calculate_trust_score_enhanced", metric |-> m, history |-> h] :
        m \in SCORE_METRICS_LEVELS, h \in SCORE_HISTORIES }
    \cup
    { [fn |-> "calculate_trust_score_enhanced", metric |-> m, history |-> <<>>] :
        m \in SCORE_METRICS_DOCS }

InitScore ==
    /\ METRICS_STORE = <<>>
    /\ LINEAGE_GRAPH = <<>>
    /\ now = 0
    /\ db = EmptyDb
    /\ call \in SCORE_CALLS
    /\ result = NoResult

ScoreMetric ==
    /\ call.fn = "calculate_trust_score_enhanced"
    /\ result.op = "none"
    /\ result' = [op |-> "calculate_trust_score_enhanced",
                  value |-> calculate_trust_score_enhanced(call.metric,
                                                           call.history, now)]
    /\ UNCHANGED <<METRICS_STORE, LINEAGE_GRAPH, now, db, call>>

NextScore == ScoreMetric

SpecScore == InitScore /\ [][NextScore]_vars

----------------------------------------------------------------------------
(* calculate_trend applied to histories *)

\* ages on both sides of the two window edges
TREND_AGES == <<0, 30, 31, 60, 61>>

RECURSIVE Repeat(_, _)
Repeat(x, n) == IF n = 0 THEN <<>> ELSE <<x>> \o Repeat(x, n - 1)

\* the history, most recent first, with counts[k] changes of age TREND_AGES[k]
HistoryOfCounts(counts) ==
    History(Repeat(TREND_AGES[1], counts[1]) \o Repeat(TREND_AGES[2], counts[2])
            \o Repeat(TREND_AGES[3], counts[3]) \o Repeat(TREND_AGES[4], counts[4])
            \o Repeat(TREND_AGES[5], counts[5]))

TREND_HISTORIES ==
    { HistoryOfCounts(counts) :
        counts \in { c \in [1..5 -> 0..MaxHistory] :
                       c[1] + c[2] + c[3] + c[4] + c[5] <= MaxHistory } }
    \cup { History(<<0, 10, 20, 30, 40>>) }

InitTrend ==
    /\ METRICS_STORE = <<>>
    /\ LINEAGE_GRAPH = <<>>
    /\ now = 0
    /\ db = EmptyDb
    /\ call \in { [fn |-> "calculate_trend", history |-> h] : h \in TREND_HISTORIES }
    /\ result = NoResult

CalculateTrend ==
    /\ call.fn = "calculate_trend"
    /\ result.op = "none"
    /\ result' = [op |-> "calculate_trend",
                  value |-> calculate_trend(call.history, now)]
    /\ UNCHANGED <<METRICS_STORE, LINEAGE_GRAPH, now, db, call>>

NextTrend == CalculateTrend

SpecTrend == InitTrend /\ [][NextTrend]_vars

----------------------------------------------------------------------------
(* _calculate_similarity applied to pairs of metric records *)

SIM_DESCRIPTIONS ==
    { <<>>, <<" ">>, <<"a">>, <<"A">>, <<"b">>, <<"a", " ", "b">>,
      <<"B", " ", " ", "a">>, <<"a", " ", "c">> }

SIM_TAGS == { <<>>, <<"t">>, <<"u">>, <<"t", "u">>, <<"t", "t">> }

SIM_SOURCES == { <<>>, <<"s">>, <<"S">> }

SIM_METRICS ==
    { [description |-> d, tags |-> g, data_source |-> src] :
        d \in SIM_DESCRIPTIONS, g \in SIM_TAGS, src \in SIM_SOURCES }

InitSimilarity ==
    /\ METRICS_STORE = <<>>
    /\ LINEAGE_GRAPH = <<>>
    /\ now = 0
    /\ db = EmptyDb
    /\ call \in { [fn |-> "_calculate_similarity", m1 |-> a, m2 |-> b] :
                    a \in SIM_METRICS, b \in SIM_METRICS }
    /\ result = NoResult

CalculateSimilarity ==
    /\ call.fn = "_calculate_similarity"
    /\ result.op = "none"
    /\ result' = [op |-> "_calculate_similarity",
                  value |-> _calculate_similarity(call.m1, call.m2)]
    /\ UNCHANGED <<METRICS_STORE, LINEAGE_GRAPH, now, db, call>>

NextSimilarity == CalculateSimilarity

SpecSimilarity == InitSimilarity /\ [][NextSimilarity]_vars

----------------------------------------------------------------------------
(* generate_sparkline applied to score sequences *)

SPARK_SCORES == {0, 1, 7, 8, 50, 100}

SPARK_INPUTS == UNION { [1..n -> SPARK_SCORES] : n \in 0..MaxScores }

InitSparkline ==
    /\ METRICS_STORE = <<>>
    /\ LINEAGE_GRAPH = <<>>
    /\ now = 0
    /\ db = EmptyDb
    /\ call \in { [fn |-> "generate_sparkline", scores |-> q] : q \in SPARK_INPUTS }
    /\ result = NoResult

GenerateSparkline ==
    /\ call.fn = "generate_sparkline"
    /\ result.op = "none"
    /\ result' = [op |-> "generate_sparkline",
                  value |-> generate_sparkline(call.scores)]
    /\ UNCHANGED <<METRICS_STORE, LINEAGE_GRAPH, now, db, call>>

NextSparkline == GenerateSparkline

SpecSparkline == InitSparkline /\ [][NextSparkline]_vars

----------------------------------------------------------------------------
(* Claims *)

ALL_IDS == { MetricId(n) : n \in NAMES }

\* C2: _has_circular_dependency(id) is true exactly when a directed cycle
\* among registered metrics is reachable from id along dependency edges (a
\* self-reference counts); it is false on every acyclic graph, shared
\* descendants included, and false for an id that is not registered.  The
\* value validate_metric reports is that value.
C2_CycleDetectionExact ==
    /\ \A id \in ALL_IDS :
          _has_circular_dependency(id, {}) = CycleReachableFrom(id)
    /\ (result.op = "validate_metric" /\ result.status = "ok")
          => (result.circular = CycleReachableFrom(result.id))

\* a three-metric cycle a.b -> c.d -> e_.f -> a.b, reported by validate_metric
C2_Witness_ThreeCycle ==
    /\ result.op = "validate_metric" /\ result.status = "ok"
    /\ result.circular
    /\ Cardinality(Registered) = 3
    /\ \A m \in Registered :
          /\ Cardinality(METRICS_STORE[m].dependencies) = 1
          /\ m \notin METRICS_STORE[m].dependencies
          /\ METRICS_STORE[m].dependencies \subseteq Registered

\* C3: the downstream set visualize_lineage computes for a registered metric
\* is exactly the set of registered metrics whose dependencies contain it.
C3_DownstreamIsDependents ==
    (result.op = "visualize_lineage" /\ result.status = "ok")
      => /\ result.downstream =
              { m \in Registered : result.id \in METRICS_STORE[m].dependencies }
         /\ result.direct_dependents = Cardinality(result.downstream)

\* the id the claim derives from a name
DerivedId(name) == StrReplace(StrLower(name), " ", "_")

DefineLeavesRegistry ==
    /\ METRICS_STORE' = METRICS_STORE
    /\ LINEAGE_GRAPH' = LINEAGE_GRAPH

\* C4 as stated: define_metric with a name whose derived id is registered
\* returns the already-exists result and changes nothing, and create_metric
\* with an existing id returns False and changes nothing.
C4_DuplicateAlwaysAlreadyExists ==
    [][ /\ (result'.op = "define_metric" /\ DerivedId(result'.name) \in Registered)
            => (result'.status = "exists" /\ DefineLeavesRegistry)
        /\ (result'.op = "create_metric" /\ result'.id \in DOMAIN db.metrics)
            => (~result'.ok /\ db' = db) ]_vars

\* C4 amended: define_metric with a name whose derived id is registered is
\* rejected and changes nothing; the result is already-exists when name,
\* description and calculation are all given and the required-arguments error
\* otherwise.  create_metric with an existing id returns False and changes
\* nothing.
C4_DuplicateRejected ==
    [][ /\ (result'.op = "define_metric" /\ DerivedId(result'.name) \in Registered)
            => /\ result'.status =
                    (IF result'.required_given THEN "exists" ELSE "error")
               /\ DefineLeavesRegistry
        /\ (result'.op = "create_metric" /\ result'.id \in DOMAIN db.metrics)
            => (~result'.ok /\ db' = db) ]_vars

\* a definition rejected under a name that differs from the registered one,
\* next to a repository that holds a row
C4_Witness_Rejected ==
    /\ result.op = "define_metric" /\ result.status = "exists"
    /\ METRICS_STORE[DerivedId(result.name)].name # result.name
    /\ DOMAIN db.metrics # {}

Scored == result.op = "calculate_trust_score_enhanced"

\* the returned breakdown and multipliers added up, in 120ths of a point;
\* each of the five rounded factors is within 0.05 (6/120) of its value
ReportedSum120 ==
    LET b == result.value.breakdown
        m == result.value.multipliers
    IN  (b.freshness + b.tests + b.usage + b.documentation + b.ownership) * 12
        + (m.recent_activity + m.consistency + m.time_decay) * 10

\* C1: the score calculate_trust_score_enhanced returns is between 0 and 100
\* (in tenths, 0..1000) for every metric and history: 0 when the time decay
\* outweighs base score and bonuses, 100 when base and bonuses exceed 100.
C1_ScoreWithinBounds ==
    Scored =>
        /\ 0 <= result.value.score /\ result.value.score <= 1000
        /\ (ReportedSum120 <= 0 - 30) => (result.value.score = 0)
        /\ (ReportedSum120 >= 100 * 120 + 30) => (result.value.score = 1000)

\* a score of 0 returned where the decay is larger than everything added
C1_Witness_DecayExceedsBase ==
    /\ Scored
    /\ ReportedSum120 <= 0 - 30
    /\ result.value.multipliers.time_decay < 0
    /\ result.value.score = 0

\* C5: a metric updated within 7 days, with at least 5 tests, at least 50
\* uses, a description longer than 20 characters, a data source, tags,
\* dependencies and an owner that is set and not "Unassigned" gets the
\* breakdown 35 / 20 / 15 / 15 / 15 and the score 100, whatever the history.
C5_Precondition ==
    /\ now - call.metric.updated_at <= 7
    /\ call.metric.test_count >= 5
    /\ call.metric.usage_count >= 50
    /\ Len(call.metric.description) > 20
    /\ call.metric.data_source # <<>>
    /\ call.metric.tags # <<>>
    /\ call.metric.dependencies # {}
    /\ call.metric.owner # <<>> /\ call.metric.owner # Unassigned

C5_PerfectScore ==
    (Scored /\ C5_Precondition) =>
        /\ result.value.breakdown =
              [ tests |-> 350, usage |-> 200, freshness |-> 150,
                documentation |-> 150, ownership |-> 150 ]
        /\ result.value.score = 1000

\* a perfect metric scored together with a history that earns no bonus
C5_Witness_Perfect ==
    /\ Scored /\ C5_Precondition
    /\ call.history # <<>>
    /\ result.value.multipliers.consistency = 0

\* the metric of the poor-score scenario: nothing documented, no owner, no
\* tests, no usage, created 200 and updated 100 days ago
C6_Scenario ==
    /\ call.metric.description = <<>> /\ call.metric.tags = <<>>
    /\ call.metric.data_source = <<>> /\ call.metric.dependencies = {}
    /\ call.metric.owner = Unassigned
    /\ call.metric.test_count = 0 /\ call.metric.usage_count = 0
    /\ now - call.metric.created_at = 200
    /\ now - call.metric.updated_at = 100

\* C6 as stated: the scenario scores below 30 and its recommendation list
\* starts with the test-coverage critical entry.
C6_CriticalEntryFirst ==
    (Scored /\ C6_Scenario) =>
        /\ result.value.score < 300
        /\ result.value.recommendations # <<>>
        /\ result.value.recommendations[1].kind = "tests_critical"

\* C6 amended: the scenario scores below 30 and its recommendation list
\* starts with the action-required banner, followed at once by the
\* test-coverage critical entry.
C6_BannerThenCriticalEntry ==
    (Scored /\ C6_Scenario) =>
        /\ result.value.score < 300
        /\ Len(result.value.recommendations) >= 2
        /\ result.value.recommendations[1].kind = "banner_action"
        /\ result.value.recommendations[2].kind = "tests_critical"

C6_Witness_Scenario ==
    /\ Scored /\ C6_Scenario
    /\ result.value.score = 0

TrendDone == result.op = "calculate_trend"

\* records of the history that are at most 30 days old
RECURSIVE CountRecent(_)
CountRecent(h) ==
    IF h = <<>> THEN 0
    ELSE (IF now - Head(h).changed_at <= 30 THEN 1 ELSE 0) + CountRecent(Tail(h))

\* records of the history that are more than 30 and at most 60 days old
RECURSIVE CountOlder(_)
CountOlder(h) ==
    IF h = <<>> THEN 0
    ELSE (IF now - Head(h).changed_at > 30 /\ now - Head(h).changed_at <= 60
          THEN 1 ELSE 0) + CountOlder(Tail(h))

C8_EvenlySpacedStable ==
    (TrendDone /\ call.history = History(<<0, 10, 20, 30, 40>>)) =>
        (result.value = "stable")

SimilarityDone == result.op = "_calculate_similarity"

\* |A \cap B| / |A \cup B| as a fraction, 0/1 where the term is left out
Jaccard(A, B, counted) ==
    IF counted THEN [num |-> Cardinality(A \cap B), den |-> Cardinality(A \cup B)]
    ELSE [num |-> 0, den |-> 1]

SameFraction(x, y) == x.num * y.den = y.num * x.den

\* 0.4*J(description words) + 0.3*J(tags) + 0.3*[same non-empty source] over
\* the common denominator
ExpectedSimilarity(a, b) ==
    LET wa == DescriptionWords(a.description)
        wb == DescriptionWords(b.description)
        ta == SeqToSet(a.tags)
        tb == SeqToSet(b.tags)
        jd == Jaccard(wa, wb, wa # {} /\ wb # {})
        jt == Jaccard(ta, tb, ~(ta = {} /\ tb = {}))
        src == IF a.data_source = b.data_source /\ a.data_source # <<>>
               THEN 1 ELSE 0
    IN  [ num |-> 4 * jd.num * jt.den + 3 * jt.num * jd.den
                  + 3 * src * jd.den * jt.den,
          den |-> 10 * jd.den * jt.den ]

\* C9: _calculate_similarity(a, b) is 0.4*J(lower-cased description words)
\* + 0.3*J(tags) + 0.3*[data_source equal and non-empty], a Jaccard term being
\* 0 when either description has no words or both tag sets are empty; it lies
\* in [0, 1], is the same for (b, a), divides by nothing that is zero, and is
\* exactly 0.3 for one shared non-empty data_source with disjoint description
\* words and disjoint tags.
C9_SimilarityFormula ==
    SimilarityDone =>
        LET v == result.value
            a == call.m1
            b == call.m2
        IN  /\ v.den > 0
            /\ SameFraction(v, ExpectedSimilarity(a, b))
            /\ 0 <= v.num /\ v.num <= v.den
            /\ SameFraction(v, _calculate_similarity(b, a))
            /\ ( /\ a.data_source = b.data_source /\ a.data_source # <<>>
                 /\ DescriptionWords(a.description)
                        \cap DescriptionWords(b.description) = {}
                 /\ SeqToSet(a.tags) \cap SeqToSet(b.tags) = {} )
               => SameFraction(v, [num |-> 3, den |-> 10])

\* two metrics with words and tags of their own and one data source: 0.3
C9_Witness_SourceOnly ==
    /\ SimilarityDone
    /\ call.m1.data_source = call.m2.data_source /\ call.m1.data_source # <<>>
    /\ DescriptionWords(call.m1.description) # {}
    /\ DescriptionWords(call.m2.description) # {}
    /\ DescriptionWords(call.m1.description)
           \cap DescriptionWords(call.m2.description) = {}
    /\ call.m1.tags # <<>> /\ call.m2.tags # <<>>
    /\ SeqToSet(call.m1.tags) \cap SeqToSet(call.m2.tags) = {}
    /\ SameFraction(result.value, [num |-> 3, den |-> 10])

SparklineDone == result.op = "generate_sparkline"

\* C10: generate_sparkline returns len(scores) symbols for a non-empty input
\* and one symbol for the empty input; for an input with at least two
\* distinct values every symbol is one of the eight levels.
C10_SparklineLength ==
    SparklineDone =>
        /\ (call.scores # <<>>) => (Len(result.value) = Len(call.scores))
        /\ (call.scores = <<>>) => (Len(result.value) = 1)
        /\ (Cardinality(SeqToSet(call.scores)) >= 2) =>
               (\A i \in 1..Len(result.value) :
                    result.value[i] \in SeqToSet(sparkline_chars))

\* three or more scores spanning the lowest and the highest level
C10_Witness_FullRange ==
    /\ SparklineDone
    /\ Len(call.scores) >= 3
    /\ Len(result.value) = Len(call.scores)
    /\ "U+2581" \in SeqToSet(result.value)
    /\ "U+2588" \in SeqToSet(result.value)
    /\ "U+2585" \in SeqToSet(result.value)

\* C11: for every non-empty score sequence whose maximum equals its minimum,
\* a single score included, generate_sparkline returns the mid-intensity
\* block once per score; only the empty sequence returns the flat-line dash.
C11_DegenerateIsMidBlock ==
    SparklineDone =>
        /\ (call.scores # <<>> /\ Cardinality(SeqToSet(call.scores)) = 1) =>
               (result.value = [i \in 1..Len(call.scores) |-> "U+2584"])
        /\ (result.value = <<"U+2500">>) => (call.scores = <<>>)

\* a step in which update_metric was called and something changed
UpdateStep == result'.op = "update_metric"

\* the rows a step appended to metric_history
AppendedHistory ==
    SubSeq(db'.metric_history, Len(db.metric_history) + 1, Len(db'.metric_history))

\* the fields of the updates whose new value differs from the stored one
ChangedFields(metric_id, updates) ==
    { f \in DOMAIN updates : _row_to_dict(db.metrics[metric_id])[f] # updates[f] }

\* one ChangeRecord per changed field and no other, the unknown id refused
C12_HistoryOfUpdate(metric_id, updates, changed_by) ==
    IF metric_id \in DOMAIN db.metrics
    THEN /\ result'.value = TRUE
         /\ Len(db'.metric_history) >= Len(db.metric_history)
         /\ SubSeq(db'.metric_history, 1, Len(db.metric_history)) = db.metric_history
         /\ Len(AppendedHistory) = Cardinality(ChangedFields(metric_id, updates))
         /\ \A f \in ChangedFields(metric_id, updates) :
                \E i \in 1..Len(AppendedHistory) :
                    /\ AppendedHistory[i].metric_id = metric_id
                    /\ AppendedHistory[i].field_name = f
                    /\ AppendedHistory[i].old_value =
                           PyStr(_row_to_dict(db.metrics[metric_id])[f])
                    /\ AppendedHistory[i].new_value = PyStr(updates[f])
                    /\ AppendedHistory[i].changed_by = changed_by
         /\ DOMAIN db'.metrics = DOMAIN db.metrics
         /\ \A k \in DOMAIN db.metrics \ {metric_id} : db'.metrics[k] = db.metrics[k]
    ELSE /\ result'.value = FALSE
         /\ db' = db

\* C12 as stated: update_metric on an existing metric appends exactly one
\* ChangeRecord per field of updates whose value differs and none for an
\* unchanged field, and the stored metric then holds every new value; on an
\* unknown id it returns False and changes nothing.
C12_UpdateStoresEveryValue ==
    [][ UpdateStep =>
          LET metric_id == result'.id
              updates == result'.args[1]
          IN  /\ C12_HistoryOfUpdate(metric_id, updates, result'.args[2])
              /\ (metric_id \in DOMAIN db.metrics) =>
                     \A f \in DOMAIN updates :
                         _row_to_dict(db'.metrics[metric_id])[f] = updates[f] ]_vars

\* C12 amended: as stated, except that the stored updated_at is always the
\* time of the call, also when updates names updated_at (a ChangeRecord is
\* still appended for it); every other field of updates holds its new value
\* and the fields not in updates keep theirs.
C12_UpdateStoresValuesAndStamps ==
    [][ UpdateStep =>
          LET metric_id == result'.id
              updates == result'.args[1]
          IN  /\ C12_HistoryOfUpdate(metric_id, updates, result'.args[2])
              /\ (metric_id \in DOMAIN db.metrics) =>
                     LET before == _row_to_dict(db.metrics[metric_id])
                         after == _row_to_dict(db'.metrics[metric_id])
                     IN  \A f \in DOMAIN before :
                             after[f] = IF f = "updated_at" THEN now
                                        ELSE IF f \in DOMAIN updates THEN updates[f]
                                        ELSE before[f] ]_vars

\* an update naming owner and updated_at has logged both and stamped the row
C12_Witness_TwoRecords ==
    /\ result.op = "update_metric" /\ result.value = TRUE
    /\ DOMAIN result.args[1] = {"owner", "updated_at"}
    /\ Len(db.metric_history) = 2
    /\ db.metric_history[1].field_name = "owner"
    /\ db.metric_history[2].field_name = "updated_at"
    /\ db.metrics[result.id].owner = "o2"
    /\ db.metrics[result.id].updated_at = now

\* the rows of a table for one metric recorded on one of the last `days` days
RowsWithin(table, metric_id, days) ==
    { i \in 1..Len(table) :
        table[i].metric_id = metric_id /\ table[i].at >= now - days }

\* C13: the day-window queries succeed on every date and for every window
\* length days >= 0: get_trust_score_history(id, days) returns exactly the
\* snapshots of id of the last `days` days, most recent first, and
\* get_usage_stats(id, days) counts every usage of the last `days` days.
C13_WindowQueriesSucceed ==
    /\ (result.op = "get_trust_score_history") =>
           /\ result.value.raised = None
           /\ Len(result.value.returned) =
                  Cardinality(RowsWithin(db.trust_score_history, result.id,
                                         result.args[1]))
           /\ \A i, j \in 1..Len(result.value.returned) :
                  (i < j) => (result.value.returned[i].recorded_at
                                >= result.value.returned[j].recorded_at)
    /\ (result.op = "get_usage_stats") =>
           /\ result.value.raised = None
           /\ result.value.returned.total_uses =
                  Cardinality(RowsWithin(db.metric_usage, result.id, result.args[1]))

\* C14: test_count and usage_count are non-negative and never decrease: each
\* validate_metric with a test on the registry and each add_validation_test
\* on the repository raises the metric's test_count by exactly 1, and each
\* record_usage raises its usage_count by exactly 1, whatever counts the
\* metric was created with.
C14_CountsOnlyGrow ==
    [][ /\ \A k \in DOMAIN db.metrics \cap DOMAIN db'.metrics :
               /\ db'.metrics[k].test_count >= db.metrics[k].test_count
               /\ db'.metrics[k].usage_count >= db.metrics[k].usage_count
               /\ db'.metrics[k].test_count >= 0
               /\ db'.metrics[k].usage_count >= 0
        /\ \A k \in DOMAIN METRICS_STORE \cap DOMAIN METRICS_STORE' :
               /\ METRICS_STORE'[k].test_count >= METRICS_STORE[k].test_count
               /\ METRICS_STORE'[k].usage_count >= METRICS_STORE[k].usage_count
        /\ (result'.op = "add_validation_test" /\ result'.id \in DOMAIN db.metrics)
               => (db'.metrics[result'.id].test_count
                       = db.metrics[result'.id].test_count + 1)
        /\ (result'.op = "record_usage" /\ result'.id \in DOMAIN db.metrics)
               => (db'.metrics[result'.id].usage_count
                       = db.metrics[result'.id].usage_count + 1) ]_vars

\* C15: when validate_metric is called with a test description, the reported
\* old trust score is the metric's score before the test was added and the
\* new one its score after, so a test that takes test_count from 0 to 1,
\* 2 to 3 or 4 to 5 is reported as a strictly positive improvement.
C15_OldScoreIsBeforeTest ==
    [][ ( /\ result'.op = "validate_metric"
          /\ result'.status = "ok"
          /\ result'.test_added
          /\ METRICS_STORE' # METRICS_STORE ) =>
          LET before == METRICS_STORE[result'.id]
              after == METRICS_STORE'[result'.id]
          IN  /\ result'.old_trust = _calculate_trust_score(before, now)
              /\ result'.new_trust = _calculate_trust_score(after, now)
              /\ (before.test_count \in {0, 2, 4}) =>
                     (result'.new_trust > result'.old_trust) ]_vars

LineageDrawn == result.op = "visualize_lineage" /\ result.status = "ok"

\* a node with children below a node of the same name, on one path
RECURSIVE ExpandedBelowItself(_, _)
ExpandedBelowItself(tree, ancestors) ==
    \E node \in tree :
        \/ node.name \in ancestors /\ node.children # {}
        \/ ExpandedBelowItself(node.children, ancestors \cup {node.name})

\* a node that is not a registered metric and yet has children
RECURSIVE UnregisteredExpanded(_)
UnregisteredExpanded(tree) ==
    \E node \in tree :
        \/ node.name \notin Registered /\ node.children # {}
        \/ UnregisteredExpanded(node.children)

\* C16: in the upstream tree no metric is expanded beneath an occurrence of
\* itself on the same root-to-node path (on a cycle the repeated node is a
\* leaf), and a reference that is not a registered metric is always a leaf.
C16_NoExpansionBelowItself ==
    LineageDrawn =>
        /\ ~ExpandedBelowItself(result.upstream, {})
        /\ ~UnregisteredExpanded(result.upstream)

\* C17: the upstream traversal of visualize_lineage returns for every
\* registry state, cyclic ones included, and for every depth, zero, positive
\* or negative; depth 0 yields no children.
C17_TraversalReturns ==
    (result.op = "visualize_lineage") =>
        /\ result.status # "RecursionError"
        /\ (result.status = "ok" /\ result.depth = 0) => (result.upstream = {})

\* C18: the time_decay multiplier is non-zero iff the creation age exceeds 90
\* days and the update age exceeds 30 days; it then equals
\* -min(25, update_age/30*5), strictly negative and never below -25; it is 0
\* for a metric created more than 90 days ago but updated within 30 days and
\* for a metric created within 90 days however stale.
C18_TimeDecay ==
    Scored =>
        LET created_age == now - call.metric.created_at
            update_age == now - call.metric.updated_at
            time_decay == result.value.multipliers.time_decay
        IN  /\ (time_decay # 0) <=> (created_age > 90 /\ update_age > 30)
            /\ (created_age > 90 /\ update_age > 30) =>
                   /\ time_decay * 30
                          = 0 - Min(25 * 30 * Twelfths, update_age * 5 * Twelfths)
                   /\ time_decay < 0
                   /\ time_decay >= 0 - 25 * Twelfths

\* created 91 days ago and updated 31 days ago: a decay of 31/6 points
C18_Witness_JustPastBothEdges ==
    /\ Scored
    /\ now - call.metric.created_at = 91
    /\ now - call.metric.updated_at = 31
    /\ result.value.multipliers.time_decay * 6 = 0 - 31 * Twelfths

\* the whole-day gaps between consecutive records among the ten most recent
ExaminedGaps(history) ==
    { history[i].changed_at - history[i + 1].changed_at :
        i \in 1..(Min(10, Len(history)) - 1) }

\* C19: for a history given most recent first the consistency multiplier is
\* 5 exactly when the history has at least 5 records and every gap between
\* consecutive records among its 10 most recent is at most 30 days, and 0
\* otherwise; records beyond the tenth never affect it.
C19_ConsistencyBonus ==
    Scored =>
        /\ result.value.multipliers.consistency \in {0, 5 * Twelfths}
        /\ (result.value.multipliers.consistency = 5 * Twelfths)
               <=> ( /\ Len(call.history) >= 5
                     /\ \A g \in ExaminedGaps(call.history) : g <= 30 )

\* eleven records with a 31-day gap after the tenth still earn the bonus
C19_Witness_GapBeyondTenth ==
    /\ Scored
    /\ Len(call.history) = 11
    /\ call.history[10].changed_at - call.history[11].changed_at > 30
    /\ result.value.multipliers.consistency = 5 * Twelfths

\* position of a recommendation's factor in the order of the threshold checks
FactorRank(kind) ==
    CASE kind \in {"tests_critical", "tests_more"} -> 1
      [] kind \in {"usage_new", "usage_low"} -> 2
      [] kind \in {"freshness_stale", "freshness_review"} -> 3
      [] kind = "documentation" -> 4
      [] kind = "ownership" -> 5
      [] OTHER -> 0

\* C20: the recommendation list is an optional banner (the positive one iff
\* the clamped score is >= 80, the action-required one iff it is < 50, none
\* otherwise) followed by at most one entry each for test coverage, usage,
\* freshness, documentation and ownership, in that order; the test-coverage
\* entry is the critical one when test_count = 0.
C20_RecommendationShape ==
    Scored =>
        LET recs == result.value.recommendations
            score == result.value.score
            banner == IF score >= 800 THEN <<"banner_excellent">>
                      ELSE IF score < 500 THEN <<"banner_action">>
                      ELSE <<>>
            entries == SubSeq(recs, Len(banner) + 1, Len(recs))
        IN  /\ Len(recs) >= Len(banner)
            /\ \A i \in 1..Len(banner) : recs[i].kind = banner[i]
            /\ \A i \in 1..Len(entries) : FactorRank(entries[i].kind) > 0
            /\ \A i, j \in 1..Len(entries) :
                   (i < j) => (FactorRank(entries[i].kind) < FactorRank(entries[j].kind))
            /\ (call.metric.test_count = 0) =>
                   (\A i \in 1..Len(entries) : entries[i].kind # "tests_more")

\* the positive banner in front of a single freshness entry
C20_Witness_BannerAndEntry ==
    /\ Scored
    /\ result.value.score >= 800
    /\ Len(result.value.recommendations) = 2
    /\ result.value.recommendations[1].kind = "banner_excellent"
    /\ result.value.recommendations[2].kind = "freshness_review"

\* the documentation criteria the scored metric fails, by the name a
\* recommendation gives them
FailedDocCriteria ==
    (IF Len(call.metric.description) > 20 THEN {} ELSE {"detailed description"})
    \cup (IF call.metric.data_source # <<>> THEN {} ELSE {"data source"})
    \cup (IF call.metric.tags # <<>> THEN {} ELSE {"tags"})
    \cup (IF call.metric.dependencies # {} THEN {} ELSE {"dependencies"})

\* C21: whenever at most two of the four documentation criteria are met
\* (weighted documentation score below the threshold), the recommendation
\* list contains a documentation entry and that entry names every
\* documentation criterion the metric fails.
C21_DocumentationEntryNamesAllMissing ==
    (Scored /\ Cardinality(FailedDocCriteria) >= 2) =>
        \E i \in 1..Len(result.value.recommendations) :
            /\ result.value.recommendations[i].kind = "documentation"
            /\ FailedDocCriteria \subseteq SeqToSet(result.value.recommendations[i].missing)

ValidateStep == result'.op = "validate_metric"

\* the registered metrics reached from the set S in the registry `store`
RECURSIVE ReachedIn(_, _)
ReachedIn(store, S) ==
    LET nxt == S \cup UNION { store[m].dependencies \cap DOMAIN store : m \in S }
    IN  IF nxt = S THEN S ELSE ReachedIn(store, nxt)

\* the metric lies on a directed cycle of dependencies among registered metrics
OnCycleIn(store, metric_id) ==
    /\ metric_id \in DOMAIN store
    /\ metric_id \in ReachedIn(store, store[metric_id].dependencies \cap DOMAIN store)

OnCycle(metric_id) == OnCycleIn(METRICS_STORE, metric_id)

\* C22: validate_metric never changes any metric's dependencies, the set of
\* registered metrics or LINEAGE_GRAPH; it changes only test_count and
\* updated_at of the validated metric, and only when test_description is
\* non-empty; a metric on a dependency cycle is still on it afterwards and
\* the call reports the circular dependency.
C22_ValidateKeepsGraph ==
    [][ ValidateStep =>
          /\ LINEAGE_GRAPH' = LINEAGE_GRAPH
          /\ DOMAIN METRICS_STORE' = DOMAIN METRICS_STORE
          /\ \A k \in Registered :
                 /\ METRICS_STORE'[k].dependencies = METRICS_STORE[k].dependencies
                 /\ (k # result'.id) => (METRICS_STORE'[k] = METRICS_STORE[k])
                 /\ \A f \in DOMAIN METRICS_STORE[k] \ {"test_count", "updated_at"} :
                        METRICS_STORE'[k][f] = METRICS_STORE[k][f]
          /\ (result'.status = "ok" /\ ~result'.test_added) =>
                 (METRICS_STORE' = METRICS_STORE)
          /\ (result'.status = "ok" /\ OnCycle(result'.id)) =>
                 /\ result'.circular
                 /\ OnCycleIn(METRICS_STORE', result'.id) ]_vars

\* a metric on a two-metric cycle validated for the second time with a test
C22_Witness_CycleReportedAgain ==
    /\ result.op = "validate_metric" /\ result.status = "ok"
    /\ result.test_added /\ result.circular
    /\ OnCycle(result.id)
    /\ result.id \notin Succ(result.id)
    /\ METRICS_STORE[result.id].test_count = 2

ToolStep == result'.op = "calculate_trust_score_enhanced_tool"

\* C23: each call of calculate_trust_score_enhanced_tool for a registered
\* metric appends exactly one trust-score snapshot for that id, holding the
\* score and breakdown it reports; a call for an unregistered metric appends
\* none; no call changes an earlier snapshot or any registry record.
C23_OneSnapshotPerCall ==
    [][ ToolStep =>
          /\ METRICS_STORE' = METRICS_STORE
          /\ LINEAGE_GRAPH' = LINEAGE_GRAPH
          /\ IF result'.id \in Registered
             THEN /\ result'.status = "ok"
                  /\ db'.trust_score_history =
                         Append(db.trust_score_history,
                                [ metric_id |-> result'.id,
                                  score |-> result'.score_data.score,
                                  breakdown |-> JsonDumps(result'.score_data.breakdown),
                                  at |-> now ])
             ELSE db'.trust_score_history = db.trust_score_history ]_vars

\* the rows of a table that reference the metric
RowsOf(table, metric_id) ==
    { i \in 1..Len(table) : table[i].metric_id = metric_id }

\* C24: after delete_metric(id) on an existing metric get_metric(id) is None
\* and no row of validation tests, usage records, change history or
\* trust-score history still references id, so a metric created later under
\* the same id starts with empty change and trust-score history.
C24_DeleteCascades ==
    [][ (result'.op = "delete_metric" /\ result'.id \in DOMAIN db.metrics) =>
          /\ result'.id \notin DOMAIN db'.metrics
          /\ RowsOf(db'.validation_tests, result'.id) = {}
          /\ RowsOf(db'.metric_usage, result'.id) = {}
          /\ RowsOf(db'.metric_history, result'.id) = {}
          /\ RowsOf(db'.trust_score_history, result'.id) = {} ]_vars

\* C25: with a clock that never runs backwards, every registered metric has
\* updated_at >= created_at after any sequence of define_metric and
\* validate_metric calls; no call changes a metric's created_at or id, and
\* updated_at never decreases.
C25_TimestampsOrdered ==
    [][ \A metric_id \in DOMAIN METRICS_STORE' :
          /\ METRICS_STORE'[metric_id].updated_at
                 >= METRICS_STORE'[metric_id].created_at
          /\ (metric_id \in Registered) =>
                /\ METRICS_STORE'[metric_id].created_at
                       = METRICS_STORE[metric_id].created_at
                /\ METRICS_STORE'[metric_id].id = METRICS_STORE[metric_id].id
                /\ METRICS_STORE'[metric_id].updated_at
                       >= METRICS_STORE[metric_id].updated_at ]_vars

\* a metric defined on one day was given a test on a later day
C25_Witness_ValidatedLater ==
    /\ result.op = "validate_metric"
    /\ result.status = "ok"
    /\ result.test_added
    /\ METRICS_STORE[result.id].updated_at > METRICS_STORE[result.id].created_at

\* how often x occurs in seq
Count(seq, x) == Cardinality({ i \in 1..Len(seq) : seq[i] = x })

\* the dependents recorded for dep, the empty list if none were
Dependents(dep) ==
    IF dep \in DOMAIN LINEAGE_GRAPH THEN LINEAGE_GRAPH[dep] ELSE <<>>

\* C26: the lineage index agrees with the registry: m occurs in
\* LINEAGE_GRAPH[d] exactly when m is registered and d is one of m's
\* dependencies, and then exactly once, also after rejected duplicate
\* definitions and repeated validations.
C26_LineageAgreesWithRegistry ==
    \A dep \in (DOMAIN LINEAGE_GRAPH)
                  \cup UNION { METRICS_STORE[m].dependencies : m \in Registered } :
      \A m \in Registered \cup { Dependents(dep)[i] : i \in 1..Len(Dependents(dep)) } :
          Count(Dependents(dep), m) =
              IF m \in Registered /\ dep \in METRICS_STORE[m].dependencies
              THEN 1 ELSE 0

\* a duplicate definition was just rejected while its dependency has two
\* dependents recorded
C26_Witness_RejectedDuplicate ==
    /\ result.op = "define_metric"
    /\ result.status = "exists"
    /\ \E dep \in DOMAIN LINEAGE_GRAPH : Len(LINEAGE_GRAPH[dep]) = 2

\* the kinds of the entries of a recommendation list
Kinds(recommendations) ==
    { recommendations[i].kind : i \in 1..Len(recommendations) }

\* C27: recent_activity is 10 when the update is at most 7 days old, 5 when
\* it is 8..30 days old and 0 otherwise, and the recent-activity bonus and the
\* time-decay penalty are never both non-zero.
C27_BonusExcludesDecay ==
    (result.op = "calculate_trust_score_enhanced") =>
        LET age == now - call.metric.updated_at
            multipliers == result.value.multipliers
        IN  /\ multipliers.recent_activity =
                   (IF age <= 7 THEN 10 * Twelfths
                    ELSE IF age <= 30 THEN 5 * Twelfths ELSE 0)
            /\ (multipliers.recent_activity > 0) => (multipliers.time_decay = 0)
            /\ (multipliers.time_decay # 0) => (multipliers.recent_activity = 0)

\* a metric created more than 90 days ago and updated 8..30 days ago was
\* scored: bonus 5, no decay
C27_Witness_OldMetricUpdatedThisMonth ==
    /\ result.op = "calculate_trust_score_enhanced"
    /\ now - call.metric.created_at > 90
    /\ now - call.metric.updated_at \in 8..30
    /\ result.value.multipliers.recent_activity = 5 * Twelfths
    /\ result.value.multipliers.time_decay = 0

\* C28: after any sequence of server tool calls every registered metric has
\* usage_count = 0, so the usage factor of the basic and of the enhanced
\* score is 0 and the enhanced scorer's list holds a usage recommendation.
C28_UsageNeverCounted ==
    /\ \A metric_id \in Registered :
          /\ METRICS_STORE[metric_id].usage_count = 0
          /\ _check_usage(METRICS_STORE[metric_id]) = 0
          /\ check_usage(METRICS_STORE[metric_id]) = 0
    /\ (result.op = "calculate_trust_score_enhanced_tool" /\ result.status = "ok") =>
          /\ result.score_data.breakdown.usage = 0
          /\ "usage_new" \in Kinds(result.score_data.recommendations)

\* a metric that was validated twice was scored by the enhanced tool
C28_Witness_ScoredAfterValidations ==
    /\ result.op = "calculate_trust_score_enhanced_tool"
    /\ result.status = "ok"
    /\ METRICS_STORE[result.id].test_count = 2
    /\ result.score_data.breakdown.usage = 0
    /\ "usage_new" \in Kinds(result.score_data.recommendations)

\* C29: for every metric the basic scorer's _check_* functions give the same
\* raw freshness, test, usage, documentation and ownership points as the
\* enhanced scorer's check_* functions.
C29_ScorersAgree ==
    (result.op = "calculate_trust_score_enhanced") =>
        /\ _check_freshness(call.metric, now) = check_freshness(call.metric, now)
        /\ _check_test_coverage(call.metric) = check_test_coverage(call.metric)
        /\ _check_usage(call.metric) = check_usage(call.metric)
        /\ _check_documentation(call.metric) = check_documentation(call.metric)
        /\ _check_ownership(call.metric) = check_ownership(call.metric)

\* C30: for test_count >= 0 the list holds a test-coverage entry exactly when
\* test_count = 0, and it is the critical one; the entry asking for more
\* tests is never produced.
C30_TestEntryOnlyWithoutTests ==
    (result.op = "calculate_trust_score_enhanced" /\ call.metric.test_count >= 0) =>
        /\ ("tests_critical" \in Kinds(result.value.recommendations))
               <=> (call.metric.test_count = 0)
        /\ "tests_more" \notin Kinds(result.value.recommendations)

\* a metric with one or two tests was scored and got no test-coverage entry
C30_Witness_FewTestsNoEntry ==
    /\ result.op = "calculate_trust_score_enhanced"
    /\ call.metric.test_count \in 1..2
    /\ Kinds(result.value.recommendations) \cap {"tests_critical", "tests_more"} = {}

====
